---- MODULE Spec2Model ----
(***************************************************************************)
(* Model of playground_zkaedi/main.py: the function greet, the function    *)
(* main, and the module body with its __main__ guard.                      *)
(*                                                                         *)
(* A text value (Python str) is a sequence of Unicode code points.         *)
(* The module is either run as the program (__name__ = "__main__") or      *)
(* imported by a client (as tests/test_main.py does), which may then call  *)
(* greet with any text and main.                                           *)
(***************************************************************************)
EXTENDS Integers, Sequences, FiniteSets, TLC

(* ---------------------------------------------------------------- bounds *)

\* longest name drawn character by character from Alphabet
MaxLen == 2
\* most calls of greet in one run (by the client and by main together)
MaxCalls == 3
\* most invocations of main in one run
MaxMain == 2

(* ------------------------------------------------------------- text data *)

\* the literal text before the replacement field of the f-string: "Hello, "
Prefix == <<72, 101, 108, 108, 111, 44, 32>>
\* the literal text after the replacement field of the f-string: "!"
Suffix == <<33>>
\* the literal argument of greet in main: "World"
World == <<87, 111, 114, 108, 100>>
\* the default end of print: "\n"
PrintEnd == <<10>>

\* inputs of the tests: "Alice", "" and "World! " followed by U+1F30D
Alice == <<65, 108, 105, 99, 101>>
Empty == <<>>
Special == <<87, 111, 114, 108, 100, 33, 32, 127757>>

\* characters the enumerated names are built from: '!', the character of the
\* suffix, and U+1F30D, a non-ASCII character that takes four bytes in UTF-8
Alphabet == {33, 127757}

\* every code point that occurs in some text of the model
Chars == Alphabet \cup {Prefix[i] : i \in 1..Len(Prefix)}
                  \cup {World[i] : i \in 1..Len(World)}
                  \cup {Alice[i] : i \in 1..Len(Alice)}
                  \cup {Special[i] : i \in 1..Len(Special)}
                  \cup {PrintEnd[i] : i \in 1..Len(PrintEnd)}

\* all texts over Alphabet of length at most n
RECURSIVE TextsUpTo(_)
TextsUpTo(n) ==
    IF n = 0 THEN {<<>>}
    ELSE LET shorter == TextsUpTo(n - 1)
         IN  shorter \cup {Append(s, c) : s \in shorter, c \in Alphabet}

\* the names greet is called with: the enumerated texts, the inputs of the
\* tests, main's literal, and texts that themselves look like greetings
Names == TextsUpTo(MaxLen)
         \cup {Alice, Empty, Special, World}
         \cup {Prefix, Prefix \o Suffix, Prefix \o World \o Suffix}

(* ------------------------------------------------------------ the program *)

VARIABLES
    run_name,   \* the module's __name__
    pc,         \* position of the interpreter
    caller,     \* who invoked the running (or last) main: the module or a client
    mains,      \* number of invocations of main so far
    tmp,        \* the value of greet("World") inside main, the argument of print
    stdout,     \* text written to standard output
    stderr,     \* text written to error output
    calls,      \* the calls of greet so far, in order
    status      \* exit status of the process: <<>> while it runs

vars == <<run_name, pc, caller, mains, tmp, stdout, stderr, calls, status>>

\* format_value with the bug of an ASCII-only conversion: a character outside
\* ASCII comes out as '?'
format_value_ascii(value) ==
    [i \in 1..Len(value) |-> IF value[i] > 127 THEN 63 ELSE value[i]]

\* format_value with the bug of a trimming conversion: spaces at the end of
\* the value are dropped
RECURSIVE format_value_rstrip(_)
format_value_rstrip(value) ==
    IF value # <<>> /\ value[Len(value)] = 32
    THEN format_value_rstrip(SubSeq(value, 1, Len(value) - 1))
    ELSE value

\* str.__format__ with an empty format specification: the characters of the
\* value, each in its place
format_value(value) == [i \in 1..Len(value) |-> value[i]]

\* the pieces of an f-string joined left to right
RECURSIVE build_string(_)
build_string(parts) ==
    IF parts = <<>> THEN <<>>
    ELSE Head(parts) \o build_string(Tail(parts))

\* greet with the bug of a default: an empty name is greeted as "World"
greet_default_world(name) ==
    build_string(<<Prefix, IF name = <<>> THEN World ELSE format_value(name), Suffix>>)

\* greet with the bug of a name kept in a module-level variable that is read
\* before it is set: from the second call on, the name of the call before is
\* greeted
greet_stale(name) ==
    IF calls # <<>>
    THEN build_string(<<Prefix, format_value(calls[Len(calls)].arg), Suffix>>)
    ELSE build_string(<<Prefix, format_value(name), Suffix>>)

\* return f"Hello, {name}!"
greet(name) == build_string(<<Prefix, format_value(name), Suffix>>)

\* a call of greet with the bug of a validation: an empty name raises
Invoke_greet_validating(name, by) ==
    /\ calls' = Append(calls,
                  IF name = <<>>
                  THEN [arg |-> name, by |-> by, outcome |-> "raised", ret |-> <<>>]
                  ELSE [arg |-> name, by |-> by, outcome |-> "returned",
                        ret |-> build_string(<<Prefix, format_value(name), Suffix>>)])
    /\ UNCHANGED <<stdout, stderr>>

\* a call of greet with the bug of a print left in its body: the greeting is
\* written to standard output as well as returned
Invoke_greet_printing(name, by) ==
    /\ calls' = Append(calls, [arg |-> name, by |-> by, outcome |-> "returned",
                               ret |-> build_string(<<Prefix, format_value(name), Suffix>>)])
    /\ stdout' = stdout \o build_string(<<Prefix, format_value(name), Suffix>>) \o PrintEnd
    /\ UNCHANGED stderr

\* one call of greet: evaluates the return expression and returns it; the
\* body holds no other statement
Invoke_greet(name, by) ==
    /\ calls' = Append(calls, [arg |-> name, by |-> by,
                               outcome |-> "returned", ret |-> greet(name)])
    /\ UNCHANGED <<stdout, stderr>>

Init ==
    /\ run_name \in {"__main__", "playground_zkaedi.main"}
    /\ pc = "load"
    /\ caller = "none"
    /\ mains = 0
    /\ tmp = <<>>
    /\ stdout = <<>>
    /\ stderr = <<>>
    /\ calls = <<>>
    /\ status = <<>>

\* the module body with the bug of a missing guard: main() is called at the
\* end of the module whatever __name__ is
ModuleBody_unguarded ==
    /\ pc = "load"
    /\ pc' = "main"
    /\ caller' = "module"
    /\ mains' = mains + 1
    /\ UNCHANGED <<run_name, tmp, stdout, stderr, calls, status>>

\* the module body: the two definitions, then the guard of lines 14-15
ModuleBody ==
    /\ pc = "load"
    /\ IF run_name = "__main__"
       THEN /\ pc' = "main"
            /\ caller' = "module"
            /\ mains' = mains + 1
       ELSE /\ pc' = "imported"
            /\ UNCHANGED <<caller, mains>>
    /\ UNCHANGED <<run_name, tmp, stdout, stderr, calls, status>>

\* main's first half with the bug of a second call: greet("World") is
\* evaluated twice and the second value is printed
main_greet_twice ==
    /\ pc = "main"
    /\ calls' = calls \o << [arg |-> World, by |-> "main", outcome |-> "returned",
                            ret |-> build_string(<<Prefix, format_value(World), Suffix>>)],
                           [arg |-> World, by |-> "main", outcome |-> "returned",
                            ret |-> build_string(<<Prefix, format_value(World), Suffix>>)] >>
    /\ tmp' = calls'[Len(calls')].ret
    /\ pc' = "print"
    /\ UNCHANGED <<run_name, caller, mains, status, stdout, stderr>>

\* main, first half: the argument of print is evaluated, greet("World")
main_greet ==
    /\ pc = "main"
    /\ Invoke_greet(World, "main")
    /\ tmp' = calls'[Len(calls')].ret
    /\ pc' = "print"
    /\ UNCHANGED <<run_name, caller, mains, status>>

\* main's second half with the bug of print(..., end=""): no line end
main_print_no_end ==
    /\ pc = "print"
    /\ stdout' = stdout \o tmp
    /\ pc' = "return"
    /\ UNCHANGED <<run_name, caller, mains, tmp, stderr, calls, status>>

\* main, second half: print writes its argument and the line end
main_print ==
    /\ pc = "print"
    /\ stdout' = stdout \o tmp \o PrintEnd
    /\ pc' = "return"
    /\ UNCHANGED <<run_name, caller, mains, tmp, stderr, calls, status>>

\* main's return with the bug of a loop around its body: instead of
\* returning, main greets and prints again
main_return_loops ==
    /\ pc = "return"
    /\ pc' = "main"
    /\ UNCHANGED <<run_name, caller, mains, tmp, stdout, stderr, calls, status>>

\* main returns None to whoever invoked it
main_return ==
    /\ pc = "return"
    /\ pc' = IF caller = "module" THEN "end" ELSE "imported"
    /\ UNCHANGED <<run_name, caller, mains, tmp, stdout, stderr, calls, status>>

\* the module body of the program has run to its end: the interpreter exits
ModuleEnd ==
    /\ pc = "end"
    /\ pc' = "exited"
    /\ status' = <<0>>
    /\ UNCHANGED <<run_name, caller, mains, tmp, stdout, stderr, calls>>

\* a client that imported the module calls greet(name)
client_greet(name) ==
    /\ pc = "imported"
    /\ Len(calls) < MaxCalls
    /\ Invoke_greet(name, "client")
    /\ UNCHANGED <<run_name, pc, caller, mains, tmp, status>>

\* a client that imported the module calls main()
client_main ==
    /\ pc = "imported"
    /\ mains < MaxMain
    /\ Len(calls) < MaxCalls
    /\ pc' = "main"
    /\ caller' = "client"
    /\ mains' = mains + 1
    /\ UNCHANGED <<run_name, tmp, stdout, stderr, calls, status>>

Next ==
    \/ ModuleBody
    \/ main_greet
    \/ main_print
    \/ main_return
    \/ ModuleEnd
    \/ \E name \in Names : client_greet(name)
    \/ client_main

Spec == Init /\ [][Next]_vars

\* the interpreter runs one statement after another and never pauses for ever
FairSpec == Spec /\ WF_vars(Next)

(* ------------------------------------------------- expected literal values *)

\* "Hello, World!" and a newline, as the end-to-end scenario writes it
HelloWorldLine == <<72, 101, 108, 108, 111, 44, 32, 87, 111, 114, 108, 100, 33, 10>>
\* "Hello, Alice!", the value the first test expects
HelloAlice == <<72, 101, 108, 108, 111, 44, 32, 65, 108, 105, 99, 101, 33>>
\* "Hello, !", the value the second test expects
HelloEmpty == <<72, 101, 108, 108, 111, 44, 32, 33>>
\* "Hello, World! " U+1F30D "!", the value the third test expects
HelloSpecial == <<72, 101, 108, 108, 111, 44, 32,
                  87, 111, 114, 108, 100, 33, 32, 127757, 33>>

\* indices of the recorded calls of greet
CallIdx == 1..Len(calls)

\* the calls of greet made by main, in order
MainCalls == SelectSeq(calls, LAMBDA c : c.by = "main")

\* the lines print writes for the given calls: each value and the line end
RECURSIVE LinesOf(_)
LinesOf(cs) ==
    IF cs = <<>> THEN <<>>
    ELSE Head(cs).ret \o PrintEnd \o LinesOf(Tail(cs))

\* n copies of the text s, one after another
RECURSIVE Repeat(_, _)
Repeat(s, n) == IF n = 0 THEN <<>> ELSE s \o Repeat(s, n - 1)

\* invocations of main that have finished printing
MainsPrinted == IF pc \in {"main", "print"} THEN mains - 1 ELSE mains

(* ------------------------------------------------------------------ claims *)

\* C1: every call greet(name) returns exactly "Hello, " followed by name
\* followed by "!": greet("Alice") is "Hello, Alice!", greet("") is
\* "Hello, !", and no input is trimmed, padded or special-cased.
C1_GreetIsConcatenation ==
    \A i \in CallIdx :
        /\ calls[i].ret = Prefix \o calls[i].arg \o Suffix
        /\ calls[i].arg = Alice => calls[i].ret = HelloAlice
        /\ calls[i].arg = Empty => calls[i].ret = HelloEmpty
        /\ calls[i].arg = Special => calls[i].ret = HelloSpecial

\* greet has been called with "Alice" and with the empty string
C1_Witness ==
    /\ \E i \in CallIdx : calls[i].arg = Alice /\ calls[i].ret = HelloAlice
    /\ \E i \in CallIdx : calls[i].arg = Empty /\ calls[i].ret = HelloEmpty

\* C2: a run of main writes exactly "Hello, World!" and one newline to
\* standard output and nothing to error output: standard output is one such
\* line per finished run of main, and error output stays empty.
C2_MainWritesHelloWorldLine ==
    /\ stdout = Repeat(HelloWorldLine, MainsPrinted)
    /\ stderr = <<>>

\* the program was run directly and main has printed its line
C2_Witness ==
    /\ run_name = "__main__"
    /\ pc = "return"
    /\ stdout = HelloWorldLine
    /\ stderr = <<>>

\* C3: the result of greet(name) has length Len(name) + 8 and holds the
\* characters of name, unmodified and in order, right after the 7 characters
\* of the prefix, whatever characters name contains.
C3_NamePassedThrough ==
    \A i \in CallIdx :
        /\ Len(calls[i].ret) = Len(calls[i].arg) + 8
        /\ \A k \in 1..Len(calls[i].arg) : calls[i].ret[7 + k] = calls[i].arg[k]

\* greet has been called with a name holding '!', a space and U+1F30D, and
\* with a name made of the prefix and the suffix themselves
C3_Witness ==
    /\ \E i \in CallIdx : calls[i].arg = Special
    /\ \E i \in CallIdx : calls[i].arg = Prefix \o Suffix

\* C4: greet is total over text: every call, whatever the length and the
\* characters of its input, returns, and returns a text value.
C4_GreetTotal ==
    \A i \in CallIdx :
        /\ calls[i].outcome = "returned"
        /\ calls[i].ret \in Seq(Chars)

\* greet has been called with the empty string and with the longest name
C4_Witness ==
    /\ \E i \in CallIdx : calls[i].arg = Empty /\ calls[i].outcome = "returned"
    /\ \E i \in CallIdx : /\ calls[i].arg = Prefix \o World \o Suffix
                          /\ calls[i].outcome = "returned"

\* C5: greet is deterministic: any two calls with the same input return the
\* same output, whatever calls of greet or main happen before or between.
C5_GreetDeterministic ==
    \A i, j \in CallIdx :
        calls[i].arg = calls[j].arg => calls[i].ret = calls[j].ret

\* greet("World") was called by a client, then another name was greeted, then
\* main called greet("World") again
C5_Witness ==
    /\ Len(calls) >= 3
    /\ calls[1].arg = World /\ calls[1].by = "client"
    /\ calls[2].arg # World
    /\ calls[3].arg = World /\ calls[3].by = "main"

\* C6: every run of the program ends: it writes exactly one line,
\* "Hello, World!" and a newline, exits with status 0, and at no time holds
\* standard output anything but nothing or that one line.
C6_ProgramTerminates ==
    /\ (run_name = "__main__") ~> (pc = "exited")
    /\ [](pc = "exited" => status = <<0>> /\ stdout = HelloWorldLine)
    /\ [](run_name = "__main__" => stdout \in {<<>>, HelloWorldLine})
    /\ [](status # <<>> => pc = "exited")

\* the program has exited with status 0 after its one line
C6_Witness ==
    /\ run_name = "__main__"
    /\ pc = "exited"
    /\ status = <<0>>
    /\ stdout = HelloWorldLine

\* C7: a call of greet has no side effect: the step in which greet is called
\* leaves standard output, error output and the rest of the program state as
\* they were (in main, only main's own position and temporary change); the
\* only step that writes to standard output is main's print.
C7_GreetHasNoSideEffects ==
    [][ /\ Len(calls') > Len(calls) =>
            /\ UNCHANGED <<stdout, stderr, status, run_name, mains, caller>>
            /\ pc = "imported" => UNCHANGED <<pc, tmp>>
        /\ stdout' # stdout => pc = "print" /\ pc' = "return"
        /\ stderr' = stderr ]_vars

\* a client called greet after main had printed its line, and the output is
\* still that one line
C7_Witness ==
    /\ Len(calls) >= 2
    /\ calls[1].by = "main"
    /\ calls[2].by = "client"
    /\ stdout = HelloWorldLine

\* C8: in each run of main greet is called exactly once, with "World", and
\* the write to standard output comes after greet has returned and carries
\* the value it returned: no more lines are written than main has called
\* greet, and the lines are the returned values, each with a newline.
C8_MainCallsGreetOnce ==
    /\ Len(MainCalls) = IF pc = "main" THEN mains - 1 ELSE mains
    /\ \A i \in 1..Len(MainCalls) : MainCalls[i].arg = World
    /\ MainsPrinted <= Len(MainCalls)
    /\ stdout = LinesOf(SubSeq(MainCalls, 1, MainsPrinted))
    /\ pc \in {"print", "return"} => tmp = MainCalls[Len(MainCalls)].ret
    /\ pc = "exited" => Len(calls) = 1

\* the program has exited after one call of greet and one write
C8_Witness ==
    /\ pc = "exited"
    /\ Len(calls) = 1
    /\ calls[1].arg = World
    /\ stdout = calls[1].ret \o PrintEnd

\* C9: greet is injective and its input is recoverable: calls with equal
\* results had equal inputs, and the result without its first 7 characters
\* and its last character is the input, also for an input that begins with
\* "Hello, " or ends with "!".
C9_GreetInjective ==
    /\ \A i, j \in CallIdx :
           calls[i].ret = calls[j].ret => calls[i].arg = calls[j].arg
    /\ \A i \in CallIdx :
           SubSeq(calls[i].ret, 8, Len(calls[i].ret) - 1) = calls[i].arg

\* greet has been called with "", with "Hello, " and with "Hello, !", the
\* greeting of ""
C9_Witness ==
    /\ \E i \in CallIdx : calls[i].arg = Empty
    /\ \E i \in CallIdx : calls[i].arg = Prefix
    /\ \E i \in CallIdx : calls[i].arg = Prefix \o Suffix

\* C10: the module invokes main only when it is run as the program; loading
\* it as a library calls neither main nor greet and writes nothing.
C10_ImportRunsNothing ==
    /\ [](caller = "module" => run_name = "__main__")
    /\ [][ pc = "load" /\ run_name # "__main__" =>
               /\ pc' = "imported"
               /\ UNCHANGED <<calls, stdout, stderr, mains, caller>> ]_vars

\* the module has been imported and nothing has been called or written
C10_Witness ==
    /\ run_name = "playground_zkaedi.main"
    /\ pc = "imported"
    /\ caller = "none"
    /\ calls = <<>>
    /\ stdout = <<>>

====
